---------------------------- MODULE Spec2Model ----------------------------
(***************************************************************************)
(* Model of the record/line grammar engine of gedcom_parser:               *)
(*   src/parsers/entry.py        Line, Entry                               *)
(*   src/parsers/gedcom_file.py  GedcomFile (section scanner)              *)
(*                                                                         *)
(* Python strings are sequences of one-character strings, so that lengths, *)
(* slices, searches and regular expressions are computed, not assumed.     *)
(* An Optional[str] is a sequence of length 0 (None) or 1 (the string).    *)
(*                                                                         *)
(* Entry.add_cont_conc is declared @staticmethod but its body names        *)
(* `self` (self.ENTRY_DEBUG, self._CONT_PLACEHOLDER) and PARSER_DEBUG.     *)
(* The model reads self._CONT_PLACEHOLDER as the class attribute           *)
(* Entry._CONT_PLACEHOLDER and the two debug switches as off, which is the *)
(* algorithm the method states.                                            *)
(***************************************************************************)
EXTENDS Integers, Sequences, FiniteSets, TLC

VARIABLES
    pc,                 \* position of the modelled caller
    text,               \* SpecLine: the str handed to Line.from_str
    line,               \* SpecLine: result of Line.from_str
    str_out,            \* SpecLine: result of Line.to_str
    lines,              \* SpecEntry: the `lines` argument of Entry.__init__
    no_cont_conc,       \* SpecEntry/SpecScan: Entry.no_cont_conc
    force_string_dates, \* SpecEntry/SpecScan: Entry.force_string_dates
    entry,              \* SpecEntry: the Entry object (id, type, _lines) or the error raised
    encoded,            \* SpecEntry: result of the Entry.lines getter
    first,              \* SpecEntry: _lines and encoded lines of the cycle before a reload
    row,                \* SpecEntry: result of Entry.to_col_name_dict
    gedcom_lines,       \* SpecScan: GedcomFile.gedcom_lines
    section,            \* SpecScan/SpecAll: the section asked for
    scan,               \* SpecScan: result of GedcomFile._get_section_entries
    loop,               \* SpecEncode: the locals of add_cont_conc's loops
    gedcom_out,         \* SpecRow: result of GedcomParser.csv_to_gedcom
    csv                 \* SpecAll: the rows of the sections converted so far

vars == <<pc, text, line, str_out, lines, no_cont_conc, force_string_dates,
          entry, encoded, first, row, gedcom_lines, section, scan, loop, gedcom_out, csv>>

-----------------------------------------------------------------------------
(* Python str and int helpers *)

GEDCOM_MAX_LINE_LENGTH == 80

DigitChars == <<"0", "1", "2", "3", "4", "5", "6", "7", "8", "9">>

UpperChars == {"A", "B", "C", "D", "E", "F", "G", "H", "I", "J", "K", "L", "M",
               "N", "O", "P", "Q", "R", "S", "T", "U", "V", "W", "X", "Y", "Z"}

DigitSet == {DigitChars[i] : i \in 1..10}

DigitVal(c) == (CHOOSE i \in 1..10 : DigitChars[i] = c) - 1

None == << >>

Some(s) == << s >>

Min(a, b) == IF a < b THEN a ELSE b

Max(a, b) == IF a < b THEN b ELSE a

\* c * n
Rep(c, n) == [i \in 1..n |-> c]

\* s[:k], Python slice semantics (a negative k counts from the end)
SliceTo(s, k) ==
    LET e == IF k < 0 THEN Max(Len(s) + k, 0) ELSE Min(k, Len(s))
    IN  SubSeq(s, 1, e)

\* s[k:], Python slice semantics
SliceFrom(s, k) ==
    LET b == IF k < 0 THEN Max(Len(s) + k, 0) ELSE Min(k, Len(s))
    IN  SubSeq(s, b + 1, Len(s))

\* s.startswith(p)
StartsWith(s, p) == Len(s) >= Len(p) /\ SubSeq(s, 1, Len(p)) = p

\* s.find(p): 0-based index of the first occurrence, -1 when there is none
Find(s, p) ==
    LET hits == {i \in 1..(Len(s) - Len(p) + 1) : SubSeq(s, i, i + Len(p) - 1) = p}
    IN  IF hits = {} THEN -1
        ELSE (CHOOSE i \in hits : \A j \in hits : i <= j) - 1

\* int(s) for a str of decimal digits
RECURSIVE ParseInt(_)
ParseInt(s) ==
    IF s = << >> THEN 0
    ELSE 10 * ParseInt(SubSeq(s, 1, Len(s) - 1)) + DigitVal(s[Len(s)])

\* str(n) for n >= 0
RECURSIVE IntStr(_)
IntStr(n) ==
    IF n < 10 THEN << DigitChars[n + 1] >>
    ELSE IntStr(n \div 10) \o << DigitChars[(n % 10) + 1] >>

\* length of the longest run of characters of the set ok that starts at s[from] (1-based)
RunLen(s, from, ok) ==
    LET stops == {i \in from..Len(s) : s[i] \notin ok}
    IN  IF stops = {} THEN Max(Len(s) - from + 1, 0)
        ELSE (CHOOSE i \in stops : \A j \in stops : i <= j) - from

\* `$` of Python's re: the end of the string, or just before one final newline
DropFinalNewline(s) ==
    IF Len(s) > 0 /\ s[Len(s)] = "\n" THEN SubSeq(s, 1, Len(s) - 1) ELSE s

HasNewline(s) == \E i \in 1..Len(s) : s[i] = "\n"

-----------------------------------------------------------------------------
(* class Line *)

\* [0-9A-Z_]
TagCharSet == DigitSet \cup UpperChars \cup {"_"}

\* LINE_RE with the tag class [A-Z_] of Entry._EMPTY_LINE_RE in place of [0-9A-Z_]
LINE_RE_upper_tag(s) ==
    LET t    == DropFinalNewline(s)
        nd   == RunLen(t, 1, DigitSet)
        nt   == RunLen(t, nd + 2, UpperChars \cup {"_"})
        endT == nd + 1 + nt
        rest == SubSeq(t, endT + 2, Len(t))
        head == nd >= 1 /\ Len(t) >= nd + 1 /\ t[nd + 1] = " " /\ nt >= 1
    IN  IF head /\ endT = Len(t)
        THEN [match |-> TRUE, depth |-> SubSeq(t, 1, nd),
              tag |-> SubSeq(t, nd + 2, endT), tag_value |-> None]
        ELSE IF head /\ t[endT + 1] = " " /\ ~HasNewline(rest)
        THEN [match |-> TRUE, depth |-> SubSeq(t, 1, nd),
              tag |-> SubSeq(t, nd + 2, endT), tag_value |-> Some(rest)]
        ELSE [match |-> FALSE, depth |-> << >>, tag |-> << >>, tag_value |-> None]

\* Line._LINE_RE.match(text) and m.groupdict(): the groups as strs, tag_value optional
LINE_RE(s) ==
    LET t    == DropFinalNewline(s)
        nd   == RunLen(t, 1, DigitSet)
        nt   == RunLen(t, nd + 2, TagCharSet)
        endT == nd + 1 + nt
        rest == SubSeq(t, endT + 2, Len(t))
        head == nd >= 1 /\ Len(t) >= nd + 1 /\ t[nd + 1] = " " /\ nt >= 1
    IN  IF head /\ endT = Len(t)
        THEN [match |-> TRUE, depth |-> SubSeq(t, 1, nd),
              tag |-> SubSeq(t, nd + 2, endT), tag_value |-> None]
        ELSE IF head /\ t[endT + 1] = " " /\ ~HasNewline(rest)
        THEN [match |-> TRUE, depth |-> SubSeq(t, 1, nd),
              tag |-> SubSeq(t, nd + 2, endT), tag_value |-> Some(rest)]
        ELSE [match |-> FALSE, depth |-> << >>, tag |-> << >>, tag_value |-> None]

\* Line.__init__ with the depth setter's int(val)
NewLine(depth, tag, tag_value) ==
    [depth |-> depth, tag |-> tag, tag_value |-> tag_value]

NoLine == NewLine(0, << >>, None)

\* Line.from_str / Line.get_parts_from_line: ValueError when the text does not match
from_str(s) ==
    LET m == LINE_RE(s)
    IN  IF m.match
        THEN [ok |-> TRUE, err |-> "", val |-> NewLine(ParseInt(m.depth), m.tag, m.tag_value)]
        ELSE [ok |-> FALSE, err |-> "ValueError", val |-> NoLine]

\* to_str with `if self.tag_value:` in place of `is not None`
to_str_truthy(l) ==
    LET ret == IntStr(l.depth) \o << " " >> \o l.tag
    IN  IF l.tag_value # None /\ l.tag_value[1] # << >>
        THEN ret \o << " " >> \o l.tag_value[1]
        ELSE ret

\* Line.to_str
to_str(l) ==
    LET ret == IntStr(l.depth) \o << " " >> \o l.tag
    IN  IF l.tag_value # None THEN ret \o << " " >> \o l.tag_value[1] ELSE ret

-----------------------------------------------------------------------------
(* class Entry: constants and regular expressions *)

Str_CONT == <<"C", "O", "N", "T">>

Str_CONC == <<"C", "O", "N", "C">>

Str_None == <<"N", "o", "n", "e">>

EMPTY_LINE_PLACEHOLDER == <<"<", "<", "N", "O", "N", "E", ">", ">">>

CONT_PLACEHOLDER == <<"<", "<", "C", "O", "N", "T", ">", ">">>

MISSING_DATA_PLACEHOLDER ==
    <<"<", "<", "M", "I", "S", "S", "I", "N", "G", " ", "D", "A", "T", "A", ">", ">">>

DATE_TAG == <<"D", "A", "T", "E">>

ACTIVE_TAG_SEPARATOR == <<"+">>

SUFFIX_SEPARATOR == <<"~">>

Type_INDI == <<"I", "N", "D", "I">>

Type_FAM == <<"F", "A", "M">>

Type_SOUR == <<"S", "O", "U", "R">>

\* the part of s before its first newline: what `.*` can match
BeforeNewline(s) ==
    LET n == Find(s, <<"\n">>) IN IF n = -1 THEN s ELSE SliceTo(s, n)

\* re.match("^\d+ <tag> (?P<value>.*)", s) for tag CONT or CONC
ContinuationRE(s, tag) ==
    LET nd  == RunLen(s, 1, DigitSet)
        lit == << " " >> \o tag \o << " " >>
    IN  IF nd >= 1 /\ StartsWith(SliceFrom(s, nd), lit)
        THEN [match |-> TRUE, value |-> BeforeNewline(SliceFrom(s, nd + Len(lit)))]
        ELSE [match |-> FALSE, value |-> << >>]

CONT_RE(s) == ContinuationRE(s, Str_CONT)

CONC_RE(s) == ContinuationRE(s, Str_CONC)

\* Entry._EMPTY_LINE_RE.match(s): ^\d+ [A-Z_]{3,5}$
EMPTY_LINE_RE(s) ==
    LET t  == DropFinalNewline(s)
        nd == RunLen(t, 1, DigitSet)
        nt == RunLen(t, nd + 2, UpperChars \cup {"_"})
    IN  /\ nd >= 1
        /\ Len(t) >= nd + 1
        /\ t[nd + 1] = " "
        /\ nt >= 3
        /\ nt <= 5
        /\ nd + 1 + nt = Len(t)

\* Entry._FIRST_LINE_RE.match(s): ^0 (?P<id>@[IFS]\d+@) (?P<type>(?:INDI|FAM|SOUR))$
FIRST_LINE_RE(s) ==
    LET t    == DropFinalNewline(s)
        nd   == RunLen(t, 5, DigitSet)
        idEnd == 4 + nd + 1
        type == SliceFrom(t, idEnd + 1)
        ok   == /\ StartsWith(t, <<"0", " ", "@">>)
                /\ Len(t) >= 4
                /\ t[4] \in {"I", "F", "S"}
                /\ nd >= 1
                /\ Len(t) >= idEnd + 1
                /\ t[idEnd] = "@"
                /\ t[idEnd + 1] = " "
                /\ type \in {Type_INDI, Type_FAM, Type_SOUR}
    IN  IF ok THEN [match |-> TRUE, id |-> SubSeq(t, 3, idEnd), type |-> type]
        ELSE [match |-> FALSE, id |-> << >>, type |-> << >>]

\* a result or the exception raised
Ok(v) == [ok |-> TRUE, err |-> "", val |-> v]

Raise(e) == [ok |-> FALSE, err |-> e, val |-> << >>]

\* seq[-1] = v
SetLast(seq, v) == [seq EXCEPT ![Len(seq)] = v]

\* line[:-1] if line.endswith("\n")
StripNewline(s) == IF Len(s) > 0 /\ s[Len(s)] = "\n" THEN SliceTo(s, -1) ELSE s

-----------------------------------------------------------------------------
(* Entry.remove_cont_conc: the discard policy *)

\* RemoveOwner without the cut of the owner line
RemoveOwner_uncut(prev_line) ==
    IF Len(prev_line) > GEDCOM_MAX_LINE_LENGTH - Len(MISSING_DATA_PLACEHOLDER)
    THEN prev_line \o MISSING_DATA_PLACEHOLDER
    ELSE prev_line

\* ret[-1] after the first CONT/CONC line of a run (entry.py 251-266). Only the
\* first branch stores into ret[-1]; the other two assign the local prev_line.
RemoveOwner(prev_line) ==
    IF Len(prev_line) > GEDCOM_MAX_LINE_LENGTH - Len(MISSING_DATA_PLACEHOLDER)
    THEN SliceTo(prev_line, GEDCOM_MAX_LINE_LENGTH - Len(MISSING_DATA_PLACEHOLDER))
             \o MISSING_DATA_PLACEHOLDER
    ELSE prev_line

RECURSIVE remove_loop(_, _, _, _)
remove_loop(ls, i, ret, skip) ==
    IF i = Len(ls) THEN Ok(ret)
    ELSE LET l == StripNewline(ls[i + 1])
         IN  IF CONT_RE(l).match \/ CONC_RE(l).match
             THEN IF i = 0 THEN Raise("AssertionError")
                  ELSE IF skip THEN remove_loop(ls, i + 1, ret, TRUE)
                  ELSE remove_loop(ls, i + 1, SetLast(ret, RemoveOwner(ret[Len(ret)])), TRUE)
             ELSE remove_loop(ls, i + 1, Append(ret, l), FALSE)

remove_cont_conc(ls) == remove_loop(ls, 0, << >>, FALSE)

-----------------------------------------------------------------------------
(* Entry.collapse_cont_conc: the preserve policy *)

\* ret[-1] after a CONT line with the given value (entry.py 316-320)
CollapseCont(prev_line, value) ==
    IF EMPTY_LINE_RE(prev_line)
    THEN prev_line \o << " " >> \o CONT_PLACEHOLDER \o value
    ELSE prev_line \o CONT_PLACEHOLDER \o value

RECURSIVE collapse_loop(_, _, _)
collapse_loop(ls, i, ret) ==
    IF i = Len(ls) THEN Ok(ret)
    ELSE LET l          == StripNewline(ls[i + 1])
             cont_match == CONT_RE(l)
             conc_match == CONC_RE(l)
         IN  IF cont_match.match
             THEN IF i = 0 THEN Raise("AssertionError")
                  ELSE collapse_loop(ls, i + 1,
                          SetLast(ret, CollapseCont(ret[Len(ret)], cont_match.value)))
             ELSE IF conc_match.match
             THEN IF i = 0 \/ EMPTY_LINE_RE(ret[Len(ret)]) THEN Raise("AssertionError")
                  ELSE collapse_loop(ls, i + 1,
                          SetLast(ret, ret[Len(ret)] \o conc_match.value))
             ELSE collapse_loop(ls, i + 1, Append(ret, l))

collapse_cont_conc(ls) == collapse_loop(ls, 0, << >>)

-----------------------------------------------------------------------------
(* Entry.add_cont_conc: the encode step *)

\* get_tag_value_chunk with one space counted instead of two
get_tag_value_chunk_one_space(depth, tag, tag_value) ==
    IF tag_value = None THEN <<FALSE, tag, tag_value, None>>
    ELSE LET v             == tag_value[1]
             len_depth     == Len(IntStr(depth))
             len_tag       == Len(tag)
             len_tag_value == Len(v)
             num_spaces    == 1
             newline_index == Find(v, CONT_PLACEHOLDER)
             cut1 == GEDCOM_MAX_LINE_LENGTH - 1 - len_depth - len_tag - num_spaces
             cut  == GEDCOM_MAX_LINE_LENGTH - len_depth - len_tag - num_spaces
         IN  IF \/ len_depth + len_tag + len_tag_value + num_spaces > GEDCOM_MAX_LINE_LENGTH
                \/ newline_index # -1
             THEN IF newline_index # -1
                  THEN IF len_depth + len_tag + num_spaces + newline_index
                              < GEDCOM_MAX_LINE_LENGTH
                       THEN <<TRUE, Str_CONT, Some(SliceTo(v, newline_index)),
                              Some(SliceFrom(v, newline_index + Len(CONT_PLACEHOLDER)))>>
                       ELSE <<TRUE, Str_CONC, Some(SliceTo(v, cut1)), Some(SliceFrom(v, cut1))>>
                  ELSE <<TRUE, Str_CONC, Some(SliceTo(v, cut)), Some(SliceFrom(v, cut))>>
             ELSE <<FALSE, tag, tag_value, None>>

\* get_tag_value_chunk whose cut of a value without a marker is one character short
get_tag_value_chunk_cut_short(depth, tag, tag_value) ==
    IF tag_value = None THEN <<FALSE, tag, tag_value, None>>
    ELSE LET v             == tag_value[1]
             len_depth     == Len(IntStr(depth))
             len_tag       == Len(tag)
             len_tag_value == Len(v)
             num_spaces    == 2
             newline_index == Find(v, CONT_PLACEHOLDER)
             cut1 == GEDCOM_MAX_LINE_LENGTH - 1 - len_depth - len_tag - num_spaces
         IN  IF \/ len_depth + len_tag + len_tag_value + num_spaces > GEDCOM_MAX_LINE_LENGTH
                \/ newline_index # -1
             THEN IF newline_index # -1
                  THEN IF len_depth + len_tag + num_spaces + newline_index
                              < GEDCOM_MAX_LINE_LENGTH
                       THEN <<TRUE, Str_CONT, Some(SliceTo(v, newline_index)),
                              Some(SliceFrom(v, newline_index + Len(CONT_PLACEHOLDER)))>>
                       ELSE <<TRUE, Str_CONC, Some(SliceTo(v, cut1)), Some(SliceFrom(v, cut1))>>
                  ELSE <<TRUE, Str_CONC, Some(SliceTo(v, cut1)), Some(SliceFrom(v, cut1))>>
             ELSE <<FALSE, tag, tag_value, None>>

\* get_tag_value_chunk that cuts a value that is too long by length alone and looks
\* for a marker only in a value that fits
get_tag_value_chunk_length_first(depth, tag, tag_value) ==
    IF tag_value = None THEN <<FALSE, tag, tag_value, None>>
    ELSE LET v             == tag_value[1]
             len_depth     == Len(IntStr(depth))
             len_tag       == Len(tag)
             len_tag_value == Len(v)
             num_spaces    == 2
             newline_index == Find(v, CONT_PLACEHOLDER)
             cut  == GEDCOM_MAX_LINE_LENGTH - len_depth - len_tag - num_spaces
         IN  IF len_depth + len_tag + len_tag_value + num_spaces > GEDCOM_MAX_LINE_LENGTH
             THEN <<TRUE, Str_CONC, Some(SliceTo(v, cut)), Some(SliceFrom(v, cut))>>
             ELSE IF newline_index # -1
             THEN <<TRUE, Str_CONT, Some(SliceTo(v, newline_index)),
                    Some(SliceFrom(v, newline_index + Len(CONT_PLACEHOLDER)))>>
             ELSE <<FALSE, tag, tag_value, None>>

\* get_tag_value_chunk whose split at a marker leaves the marker in the remainder
get_tag_value_chunk_keep_marker(depth, tag, tag_value) ==
    IF tag_value = None THEN <<FALSE, tag, tag_value, None>>
    ELSE LET v             == tag_value[1]
             len_depth     == Len(IntStr(depth))
             len_tag       == Len(tag)
             len_tag_value == Len(v)
             num_spaces    == 2
             newline_index == Find(v, CONT_PLACEHOLDER)
             cut1 == GEDCOM_MAX_LINE_LENGTH - 1 - len_depth - len_tag - num_spaces
             cut  == GEDCOM_MAX_LINE_LENGTH - len_depth - len_tag - num_spaces
         IN  IF \/ len_depth + len_tag + len_tag_value + num_spaces > GEDCOM_MAX_LINE_LENGTH
                \/ newline_index # -1
             THEN IF newline_index # -1
                  THEN IF len_depth + len_tag + num_spaces + newline_index
                              < GEDCOM_MAX_LINE_LENGTH
                       THEN <<TRUE, Str_CONT, Some(SliceTo(v, newline_index)),
                              Some(SliceFrom(v, newline_index))>>
                       ELSE <<TRUE, Str_CONC, Some(SliceTo(v, cut1)), Some(SliceFrom(v, cut1))>>
                  ELSE <<TRUE, Str_CONC, Some(SliceTo(v, cut)), Some(SliceFrom(v, cut))>>
             ELSE <<FALSE, tag, tag_value, None>>

\* get_tag_value_chunk: <<need_split, tag, chunk, remainder>>, chunk and remainder optional
get_tag_value_chunk(depth, tag, tag_value) ==
    IF tag_value = None THEN <<FALSE, tag, tag_value, None>>
    ELSE LET v             == tag_value[1]
             len_depth     == Len(IntStr(depth))
             len_tag       == Len(tag)
             len_tag_value == Len(v)
             num_spaces    == 2
             newline_index == Find(v, CONT_PLACEHOLDER)
             cut1 == GEDCOM_MAX_LINE_LENGTH - 1 - len_depth - len_tag - num_spaces
             cut  == GEDCOM_MAX_LINE_LENGTH - len_depth - len_tag - num_spaces
         IN  IF \/ len_depth + len_tag + len_tag_value + num_spaces > GEDCOM_MAX_LINE_LENGTH
                \/ newline_index # -1
             THEN IF newline_index # -1
                  THEN IF len_depth + len_tag + num_spaces + newline_index
                              < GEDCOM_MAX_LINE_LENGTH
                       THEN <<TRUE, Str_CONT, Some(SliceTo(v, newline_index)),
                              Some(SliceFrom(v, newline_index + Len(CONT_PLACEHOLDER)))>>
                       ELSE <<TRUE, Str_CONC, Some(SliceTo(v, cut1)), Some(SliceFrom(v, cut1))>>
                  ELSE <<TRUE, Str_CONC, Some(SliceTo(v, cut)), Some(SliceFrom(v, cut))>>
             ELSE <<FALSE, tag, tag_value, None>>

\* f"{v}" of an optional str
Fmt(v) == IF v = None THEN Str_None ELSE v[1]

\* the `while need_split` loop (entry.py 430-438): the lines it appends
RECURSIVE split_loop(_, _, _, _)
split_loop(need_split, depth, new_tag, next_tag_value) ==
    IF ~need_split THEN << >>
    ELSE LET c == get_tag_value_chunk(depth + 1, new_tag, next_tag_value)
             head == IntStr(depth + 1) \o << " " >> \o c[2]
             out  == IF c[3] # None /\ c[3][1] # << >>
                     THEN head \o << " " >> \o c[3][1]
                     ELSE head
         IN  << out >> \o split_loop(c[1], depth, c[2], c[4])

\* the lines add_cont_conc emits for one input line (entry.py 420-438)
add_one(l) ==
    LET m     == LINE_RE(l)
        depth == ParseInt(m.depth)
        c     == get_tag_value_chunk(depth, m.tag, m.tag_value)
    IN  << IntStr(depth) \o << " " >> \o m.tag \o << " " >> \o Fmt(c[3]) >>
            \o split_loop(c[1], depth, c[2], c[4])

RECURSIVE add_cont_conc(_)
add_cont_conc(ls) ==
    IF ls = << >> THEN << >>
    ELSE add_one(ls[1]) \o add_cont_conc(SubSeq(ls, 2, Len(ls)))

-----------------------------------------------------------------------------
(* Entry: construction and the lines property *)

\* the lines setter (entry.py 202-213): the stored Line objects
lines_setter(val, ncc) ==
    LET strs == IF ncc THEN remove_cont_conc(val) ELSE collapse_cont_conc(val)
    IN  IF ~strs.ok THEN strs
        ELSE LET ps == [i \in 1..Len(strs.val) |-> from_str(strs.val[i])]
             IN  IF \A i \in 1..Len(ps) : ps[i].ok
                 THEN Ok([i \in 1..Len(ps) |-> ps[i].val])
                 ELSE Raise("ValueError")

\* the lines getter (entry.py 197-200)
lines_getter(e) == add_cont_conc([i \in 1..Len(e.stored) |-> to_str(e.stored[i])])

\* Entry.get_first_line_dict (entry.py 188-195)
get_first_line_dict(l) ==
    LET m == FIRST_LINE_RE(l)
    IN  IF m.match THEN Ok([id |-> m.id, type |-> m.type]) ELSE Raise("AssertionError")

\* Entry.__init__ (entry.py 161-186); the field `stored` is self._lines
NewEntry(ls, fsd, ncc) ==
    LET h == get_first_line_dict(ls[1])
        b == lines_setter(SubSeq(ls, 2, Len(ls)), ncc)
    IN  IF ~h.ok THEN h
        ELSE IF ~b.ok THEN b
        ELSE Ok([id |-> h.val.id, type |-> h.val.type, force_string_dates |-> fsd,
                 no_cont_conc |-> ncc, stored |-> b.val])

-----------------------------------------------------------------------------
(* Entry.to_col_name_dict: the row flattener.  A dict is the sequence of its
   items in insertion order. *)

Key_id == <<"i", "d">>

Key_tag_type == <<"t", "a", "g", "_", "t", "y", "p", "e">>

\* sep.join(parts)
RECURSIVE Join(_, _)
Join(sep, parts) ==
    IF parts = << >> THEN << >>
    ELSE IF Len(parts) = 1 THEN parts[1]
    ELSE parts[1] \o sep \o Join(sep, SubSeq(parts, 2, Len(parts)))

\* key in ret
InDict(ret, key) == \E i \in 1..Len(ret) : ret[i].key = key

\* ret[key] = value
DictSet(ret, key, value) ==
    IF InDict(ret, key)
    THEN [i \in 1..Len(ret) |->
             IF ret[i].key = key THEN [key |-> key, value |-> value] ELSE ret[i]]
    ELSE Append(ret, [key |-> key, value |-> value])

\* PushTag keeping line.depth entries instead of line.depth - 1
PushTag_keep_one_more(active_tags, l) ==
    Append(IF l.depth <= Len(active_tags) + 1
           THEN SliceTo(active_tags, l.depth)
           ELSE active_tags,
           l.tag)

\* the stack after the pops and the push of one line (entry.py 485-487)
PushTag(active_tags, l) ==
    Append(IF l.depth <= Len(active_tags) + 1
           THEN SliceTo(active_tags, l.depth - 1)
           ELSE active_tags,
           l.tag)

\* Disambiguate without the loop: the key is used as it is
Disambiguate_never(ret, active_tags, tag, suffix) == active_tags

\* the `while ... in ret` loop (entry.py 504-507): the stack with a unique last segment
RECURSIVE Disambiguate(_, _, _, _)
Disambiguate(ret, active_tags, tag, suffix) ==
    IF InDict(ret, Join(ACTIVE_TAG_SEPARATOR, active_tags))
    THEN Disambiguate(ret,
                      SetLast(active_tags, tag \o SUFFIX_SEPARATOR \o IntStr(suffix + 1)),
                      tag, suffix + 1)
    ELSE active_tags

\* the value stored for one line (entry.py 491-496); line 493 names `tag`, which is
\* bound nowhere: reaching it raises NameError
RowValue(l, fsd) ==
    IF l.tag_value = None THEN Ok(EMPTY_LINE_PLACEHOLDER)
    ELSE IF l.tag = DATE_TAG /\ fsd THEN Raise("NameError")
    ELSE Ok(l.tag_value[1])

RECURSIVE flatten_loop(_, _, _, _)
flatten_loop(e, i, ret, active_tags) ==
    IF i > Len(e.stored) THEN Ok(ret)
    ELSE LET l      == e.stored[i]
             pushed == PushTag(active_tags, l)
             v      == RowValue(l, e.force_string_dates)
             stack  == Disambiguate(ret, pushed, l.tag, 0)
         IN  IF ~v.ok THEN v
             ELSE flatten_loop(e, i + 1, DictSet(ret, Join(<<"+">>, stack), v.val), stack)

to_col_name_dict(e) ==
    flatten_loop(e, 1,
                 << [key |-> Key_id, value |-> e.id],
                    [key |-> Key_tag_type, value |-> e.type] >>,
                 << >>)

-----------------------------------------------------------------------------
(* class GedcomFile: the section scanner.  An Optional[int] is << >> or <<i>>. *)

\* _INDI_REGEX / _FAM_REGEX / _SOUR_REGEX .match(s): ^0 @<letter>\d+@ <type>$
EntryRegex(s, letter, type) ==
    LET t  == DropFinalNewline(s)
        nd == RunLen(t, 5, DigitSet)
    IN  /\ StartsWith(t, <<"0", " ", "@", letter>>)
        /\ nd >= 1
        /\ SliceFrom(t, 4 + nd) = <<"@", " ">> \o type

\* _get_entry_regex_pattern(section).match(s)
PatternMatch(sec, s) ==
    CASE sec = "indi" -> EntryRegex(s, "I", Type_INDI)
      [] sec = "fam"  -> EntryRegex(s, "F", Type_FAM)
      [] sec = "sour" -> EntryRegex(s, "S", Type_SOUR)

\* the first j >= i (0-based) with j = len(ls) or ls[j].startswith("0")
NextDepth0(ls, i) ==
    LET stops == {j \in i..(Len(ls) - 1) : StartsWith(ls[j + 1], <<"0">>)}
    IN  IF stops = {} THEN Max(Len(ls), i)
        ELSE CHOOSE j \in stops : \A k \in stops : j <= k

\* GedcomFile._get_section_start_index
get_section_start_index(ls, sec) ==
    LET hits == {i \in 0..(Len(ls) - 1) : PatternMatch(sec, ls[i + 1])}
    IN  IF hits = {} THEN None
        ELSE Some(CHOOSE i \in hits : \A k \in hits : i <= k)

\* _get_section_end_index answering the last index when no line matches
get_section_end_index_last(ls, sec) ==
    LET hits == {i \in 1..(Len(ls) - 1) : PatternMatch(sec, ls[i + 1])}
    IN  IF hits = {} THEN Ok(Some(Len(ls) - 1))
        ELSE LET last == CHOOSE i \in hits : \A k \in hits : k <= i
                 j    == NextDepth0(ls, last + 1)
             IN  IF j = last + 1 THEN Ok(None)
                 ELSE IF j = Len(ls) THEN Raise("IndexError")
                 ELSE Ok(Some(j - 1))

\* GedcomFile._get_section_end_index: the backward scan never looks at index 0, and
\* ret is set only inside the forward loop, which indexes gedcom_lines[i] unchecked
get_section_end_index(ls, sec) ==
    LET hits == {i \in 1..(Len(ls) - 1) : PatternMatch(sec, ls[i + 1])}
    IN  IF hits = {} THEN Ok(None)
        ELSE LET last == CHOOSE i \in hits : \A k \in hits : k <= i
                 j    == NextDepth0(ls, last + 1)
             IN  IF j = last + 1 THEN Ok(None)
                 ELSE IF j = Len(ls) THEN Raise("IndexError")
                 ELSE Ok(Some(j - 1))

\* the `while i <= end_line_index` loop of _get_section_entries (gedcom_file.py 163-185)
RECURSIVE entries_loop(_, _, _, _, _, _)
entries_loop(ls, i, end_line_index, fsd, ncc, ret) ==
    IF i > end_line_index THEN Ok(ret)
    ELSE LET j == NextDepth0(ls, i + 1)
         IN  IF j > end_line_index + 1 \/ ~StartsWith(ls[i + 1], <<"0">>)
             THEN Raise("AssertionError")
             ELSE IF j = Len(ls) THEN Raise("IndexError")
             ELSE LET e == NewEntry(SubSeq(ls, i + 1, j), fsd, ncc)
                  IN  IF ~e.ok THEN e
                      ELSE entries_loop(ls, j, end_line_index, fsd, ncc, Append(ret, e.val))

\* _get_section_entries without the test of the two boundaries against each other
get_section_entries_unchecked(ls, sec, fsd, ncc) ==
    LET start_line_index == get_section_start_index(ls, sec)
        end_line_index   == get_section_end_index(ls, sec)
    IN  IF ~end_line_index.ok THEN end_line_index
        ELSE IF start_line_index # None /\ start_line_index[1] # 0
                /\ end_line_index.val # None
        THEN entries_loop(ls, start_line_index[1], end_line_index.val[1], fsd, ncc, << >>)
        ELSE Ok(<< >>)

\* GedcomFile._get_section_entries
get_section_entries(ls, sec, fsd, ncc) ==
    LET start_line_index == get_section_start_index(ls, sec)
        end_line_index   == get_section_end_index(ls, sec)
    IN  IF ~end_line_index.ok THEN end_line_index
        ELSE IF (start_line_index = None) # (end_line_index.val = None)
        THEN Raise("RuntimeError")
        ELSE IF start_line_index # None /\ start_line_index[1] # 0
        THEN entries_loop(ls, start_line_index[1], end_line_index.val[1], fsd, ncc, << >>)
        ELSE Ok(<< >>)

\* GedcomFile._get_entries_df: the rows handed to the DataFrame
get_entries_df(es) ==
    LET rs == [i \in 1..Len(es) |-> to_col_name_dict(es[i])]
    IN  IF \E i \in 1..Len(rs) : ~rs[i].ok
        THEN rs[CHOOSE i \in 1..Len(rs) : ~rs[i].ok /\ \A k \in 1..(i - 1) : rs[k].ok]
        ELSE Ok([i \in 1..Len(rs) |-> rs[i].val])

-----------------------------------------------------------------------------
(* class GedcomParser: the reverse direction *)

\* GedcomParser.csv_to_gedcom (parse.py 404-405): the body is `pass`, so the call
\* reads no row, emits no line and returns None
csv_to_gedcom == None

-----------------------------------------------------------------------------
(* Inputs *)

MaxRun == 2         \* longest run of continuation lines after an owner line
MaxBody == 4        \* most body lines of a flattened record
MaxFileLen == 6     \* most lines of a scanned file
MaxAllLen == 5      \* most lines of a file converted for all three sections

Unset == [ok |-> FALSE, err |-> "unset", val |-> << >>]

\* the locals of add_cont_conc before the call
NoLoop == [i |-> 0, need_split |-> FALSE, new_tag |-> << >>, next_tag_value |-> None]

Str_NOTE == <<"N", "O", "T", "E">>

Header_I1 == <<"0", " ", "@", "I", "1", "@", " ", "I", "N", "D", "I">>

Header_F1 == <<"0", " ", "@", "F", "1", "@", " ", "F", "A", "M">>

Line_TRLR == <<"0", " ", "T", "R", "L", "R">>

\* the longest value that fits on a line "<d> NOTE <value>" or "<d> CONT <value>"
Fit == GEDCOM_MAX_LINE_LENGTH - (1 + 1 + 4 + 1)

\* the longest value of an owner "<d> NOTE <value>" that the discard policy does not cut
Keep == GEDCOM_MAX_LINE_LENGTH - Len(MISSING_DATA_PLACEHOLDER) - (1 + 1 + 4 + 1)

\* texts handed to Line.from_str
LineTexts ==
    {d \o sp \o t \o v :
        d  \in {<<"0">>, <<"1">>, <<"0", "1">>, <<"1", "2">>, <<"0", "0">>, << >>, <<"x">>},
        sp \in {<<" ">>, << >>},
        t  \in {<<"N", "A", "M", "E">>, <<"_", "U", "I", "D">>, <<"N", "1">>,
                <<"n", "a", "m", "e">>, << >>},
        v  \in {<< >>, <<" ">>, <<" ", "x">>, <<" ", "a", " ", "b">>, <<" ", " ", "x">>,
                <<"\n">>, <<" ", "x", "\n">>, <<" ", "x", "\n", "y">>}}

\* owner lines "1 NOTE[ <value>]"
OwnerLines ==
    {<<"1", " ">> \o Str_NOTE} \cup
    {<<"1", " ">> \o Str_NOTE \o <<" ">> \o Rep("x", n) :
        n \in {1, Keep, Keep + 1, Fit, Fit + 1, 2 * Fit + 1}}

\* continuation lines "2 CONT <value>" and "2 CONC <value>"
ContinuationLines ==
    {<<"2", " ">> \o t \o <<" ">> \o Rep("y", n) :
        t \in {Str_CONT, Str_CONC}, n \in {1, Fit, Fit + 1}}

RECURSIVE SeqsUpTo(_, _)
SeqsUpTo(S, n) ==
    IF n = 0 THEN {<< >>}
    ELSE LET shorter == SeqsUpTo(S, n - 1)
         IN  shorter \cup {Append(q, x) : q \in {r \in shorter : Len(r) = n - 1}, x \in S}

\* records of an owner line followed by a run of continuation lines
ContInputs ==
    {<<Header_I1>> \o <<o>> \o run : o \in OwnerLines, run \in SeqsUpTo(ContinuationLines, MaxRun)}

\* continuation lines without a value: "2 CONT" and "2 CONC"
BareContinuationLines == {<<"2", " ">> \o t : t \in {Str_CONT, Str_CONC}}

\* records whose first body line is a continuation line, alone or before an owner line
OrphanInputs ==
    {<<Header_I1>> \o <<c>> \o rest :
        c \in ContinuationLines \cup BareContinuationLines,
        rest \in {<< >>, << <<"1", " ">> \o Str_NOTE \o <<" ", "x">> >>}}

\* records of an owner line followed by a continuation line without a value
BareRunInputs ==
    {<<Header_I1>> \o <<o>> \o <<c>> : o \in OwnerLines, c \in BareContinuationLines}

\* owner lines without a value whose tag has a digit or more than five characters
OddTagOwnerLines ==
    {<<"1", " ">> \o t : t \in {<<"_", "F", "A", "1">>, <<"_", "P", "H", "O", "T", "O">>}}

\* records of such an owner line followed by one continuation line
OddTagInputs ==
    {<<Header_I1>> \o <<o>> \o <<(<<"2", " ">> \o t \o <<" ", "y">>)>> :
        o \in OddTagOwnerLines, t \in {Str_CONT, Str_CONC}}

\* a record of one long line at depth 9: its continuation lines are at depth 10
DeepInputs == {<<Header_I1>> \o << <<"9", " ">> \o Str_NOTE \o <<" ">> \o Rep("x", 2 * Fit + 1) >>}

\* records whose folded value has its first marker across the offset at which a
\* split by length alone would cut
StraddleInputs ==
    {<<Header_I1>> \o << <<"1", " ">> \o Str_NOTE \o <<" ">> \o Rep("x", Fit - 3) >> \o <<c>> :
        c \in ContinuationLines}

-----------------------------------------------------------------------------
(* SpecLine: Line.from_str and Line.to_str on one text *)

InitLine ==
    /\ pc = "start"
    /\ text \in LineTexts
    /\ line = Unset
    /\ str_out = << >>
    /\ lines = << >>
    /\ no_cont_conc = FALSE
    /\ force_string_dates = FALSE
    /\ entry = Unset
    /\ encoded = << >>
    /\ first = << >>
    /\ row = Unset
    /\ gedcom_lines = << >>
    /\ section = "indi"
    /\ scan = [entries |-> Unset, rows |-> Unset]
    /\ loop = NoLoop
    /\ gedcom_out = Unset
    /\ csv = << >>

LineFromStr ==
    /\ pc = "start"
    /\ line' = from_str(text)
    /\ pc' = IF line'.ok THEN "parsed" ELSE "error"
    /\ UNCHANGED <<text, str_out, lines, no_cont_conc, force_string_dates, entry,
                   encoded, first, row, gedcom_lines, section, scan,
                   loop, gedcom_out, csv>>

LineToStr ==
    /\ pc = "parsed"
    /\ str_out' = to_str(line.val)
    /\ pc' = "done"
    /\ UNCHANGED <<text, line, lines, no_cont_conc, force_string_dates, entry,
                   encoded, first, row, gedcom_lines, section, scan,
                   loop, gedcom_out, csv>>

NextLine == LineFromStr \/ LineToStr

SpecLine == InitLine /\ [][NextLine]_vars

-----------------------------------------------------------------------------
(* SpecCont: a record, with an owner line or a continuation line first, is built
   under either policy, encoded, and built again from its own encoded lines *)

InitCont ==
    /\ pc = "start"
    /\ text = << >>
    /\ line = Unset
    /\ str_out = << >>
    /\ lines \in ContInputs \cup OrphanInputs \cup BareRunInputs \cup OddTagInputs
                   \cup DeepInputs \cup StraddleInputs
    /\ no_cont_conc \in BOOLEAN
    /\ force_string_dates = FALSE
    /\ entry = Unset
    /\ encoded = << >>
    /\ first = << >>
    /\ row = Unset
    /\ gedcom_lines = << >>
    /\ section = "indi"
    /\ scan = [entries |-> Unset, rows |-> Unset]
    /\ loop = NoLoop
    /\ gedcom_out = Unset
    /\ csv = << >>

\* Entry(lines, force_string_dates, no_cont_conc)
EntryInit ==
    /\ pc = "start"
    /\ entry' = NewEntry(lines, force_string_dates, no_cont_conc)
    /\ pc' = IF entry'.ok THEN "built" ELSE "error"
    /\ UNCHANGED <<text, line, str_out, lines, no_cont_conc, force_string_dates,
                   encoded, first, row, gedcom_lines, section, scan,
                   loop, gedcom_out, csv>>

\* entry.lines
GetLines ==
    /\ pc = "built"
    /\ encoded' = lines_getter(entry.val)
    /\ pc' = "encoded"
    /\ UNCHANGED <<text, line, str_out, lines, no_cont_conc, force_string_dates,
                   entry, first, row, gedcom_lines, section, scan,
                   loop, gedcom_out, csv>>

\* the caller hands the header and the encoded lines to a new Entry
Reload ==
    /\ pc = "encoded"
    /\ first = << >>
    /\ first' = << [stored |-> entry.val.stored, encoded |-> encoded] >>
    /\ lines' = << lines[1] >> \o encoded
    /\ entry' = Unset
    /\ encoded' = << >>
    /\ pc' = "start"
    /\ UNCHANGED <<text, line, str_out, no_cont_conc, force_string_dates, row,
                   gedcom_lines, section, scan,
                   loop, gedcom_out, csv>>

NextCont == EntryInit \/ GetLines \/ Reload

SpecCont == InitCont /\ [][NextCont]_vars

-----------------------------------------------------------------------------
(* SpecEncode: the lines getter of a built record, one step of add_cont_conc's
   loops at a time *)

\* the input line the for loop is at: its text and its depth (entry.py 418-420)
CurrentText == to_str(entry.val.stored[loop.i])

CurrentDepth == ParseInt(LINE_RE(CurrentText).depth)

\* entry.lines: add_cont_conc is called with the stored lines as texts (entry.py 200, 417)
AddContConc ==
    /\ pc = "built"
    /\ loop' = NoLoop
    /\ encoded' = << >>
    /\ pc' = "for"
    /\ UNCHANGED <<text, line, str_out, lines, no_cont_conc, force_string_dates,
                   entry, first, row, gedcom_lines, section, scan, gedcom_out, csv>>

\* the for loop takes the next line and appends its primary line (entry.py 418-428)
ForBody ==
    /\ pc = "for"
    /\ loop.i < Len(entry.val.stored)
    /\ LET m     == LINE_RE(to_str(entry.val.stored[loop.i + 1]))
           depth == ParseInt(m.depth)
           c     == get_tag_value_chunk(depth, m.tag, m.tag_value)
       IN  /\ encoded' = Append(encoded,
                                IntStr(depth) \o << " " >> \o m.tag \o << " " >> \o Fmt(c[3]))
           /\ loop' = [i |-> loop.i + 1, need_split |-> c[1], new_tag |-> c[2],
                       next_tag_value |-> c[4]]
    /\ pc' = "while"
    /\ UNCHANGED <<text, line, str_out, lines, no_cont_conc, force_string_dates,
                   entry, first, row, gedcom_lines, section, scan, gedcom_out, csv>>

\* one iteration of `while need_split` (entry.py 430-438)
WhileBody ==
    /\ pc = "while"
    /\ loop.need_split
    /\ LET c    == get_tag_value_chunk(CurrentDepth + 1, loop.new_tag, loop.next_tag_value)
           head == IntStr(CurrentDepth + 1) \o << " " >> \o c[2]
       IN  /\ encoded' = Append(encoded,
                                IF c[3] # None /\ c[3][1] # << >>
                                THEN head \o << " " >> \o c[3][1]
                                ELSE head)
           /\ loop' = [loop EXCEPT !.need_split = c[1], !.new_tag = c[2],
                                   !.next_tag_value = c[4]]
    /\ pc' = "while"
    /\ UNCHANGED <<text, line, str_out, lines, no_cont_conc, force_string_dates,
                   entry, first, row, gedcom_lines, section, scan, gedcom_out, csv>>

\* need_split is false: back to the for loop
WhileExit ==
    /\ pc = "while"
    /\ ~loop.need_split
    /\ pc' = "for"
    /\ UNCHANGED <<text, line, str_out, lines, no_cont_conc, force_string_dates,
                   entry, encoded, first, row, gedcom_lines, section, scan, loop,
                   gedcom_out, csv>>

\* the for loop is exhausted: add_cont_conc returns ret
ForExit ==
    /\ pc = "for"
    /\ loop.i = Len(entry.val.stored)
    /\ pc' = "encoded"
    /\ UNCHANGED <<text, line, str_out, lines, no_cont_conc, force_string_dates,
                   entry, encoded, first, row, gedcom_lines, section, scan, loop,
                   gedcom_out, csv>>

\* the steps of the lines getter
EncodeSteps == AddContConc \/ ForBody \/ WhileBody \/ WhileExit \/ ForExit

NextEncode == EntryInit \/ EncodeSteps

SpecEncode == InitCont /\ [][NextEncode]_vars

-----------------------------------------------------------------------------
(* SpecRow: a record without continuation lines is built and flattened, and the
   reverse direction is called *)

\* body lines "<depth> <TAG>[ <value>]", the value ending in the line's position
RowPool ==
    {[depth |-> 1, tag |-> <<"N", "A", "M", "E">>, value |-> Some(<<"a">>)],
     [depth |-> 2, tag |-> <<"G", "I", "V", "N">>, value |-> Some(<<"b">>)],
     [depth |-> 1, tag |-> <<"B", "I", "R", "T">>, value |-> None],
     [depth |-> 2, tag |-> DATE_TAG, value |-> Some(<<"c">>)],
     [depth |-> 3, tag |-> <<"T", "Y", "P", "E">>, value |-> Some(<<"d">>)]}

RowLine(p, i) ==
    to_str(NewLine(p.depth, p.tag,
                   IF p.value = None THEN None ELSE Some(p.value[1] \o IntStr(i))))

RowInputs ==
    {<<h>> \o [i \in 1..Len(body) |-> RowLine(body[i], i)] :
        h \in {Header_I1, Header_F1}, body \in SeqsUpTo(RowPool, MaxBody)}

InitRow ==
    /\ pc = "start"
    /\ text = << >>
    /\ line = Unset
    /\ str_out = << >>
    /\ lines \in RowInputs
    /\ no_cont_conc = FALSE
    /\ force_string_dates \in BOOLEAN
    /\ entry = Unset
    /\ encoded = << >>
    /\ first = << >>
    /\ row = Unset
    /\ gedcom_lines = << >>
    /\ section = "indi"
    /\ scan = [entries |-> Unset, rows |-> Unset]
    /\ loop = NoLoop
    /\ gedcom_out = Unset
    /\ csv = << >>

\* entry.to_col_name_dict()
ToColNameDict ==
    /\ pc = "built"
    /\ row' = to_col_name_dict(entry.val)
    /\ pc' = IF row'.ok THEN "flattened" ELSE "error"
    /\ UNCHANGED <<text, line, str_out, lines, no_cont_conc, force_string_dates,
                   entry, encoded, first, gedcom_lines, section, scan,
                   loop, gedcom_out, csv>>

\* parser.csv_to_gedcom(), the reverse direction, after the row is there
CsvToGedcom ==
    /\ pc = "flattened"
    /\ gedcom_out' = Ok(csv_to_gedcom)
    /\ pc' = "unflattened"
    /\ UNCHANGED <<text, line, str_out, lines, no_cont_conc, force_string_dates,
                   entry, encoded, first, row, gedcom_lines, section, scan, loop, csv>>

NextRow == EntryInit \/ ToColNameDict \/ CsvToGedcom

SpecRow == InitRow /\ [][NextRow]_vars

-----------------------------------------------------------------------------
(* SpecScan: GedcomFile.get_section_records_csv up to the rows of the DataFrame *)

Line_NAME == <<"1", " ", "N", "A", "M", "E", " ", "x">>

FilePool == {Header_I1, Header_F1, Line_TRLR, Line_NAME}

InitScan ==
    /\ pc = "start"
    /\ text = << >>
    /\ line = Unset
    /\ str_out = << >>
    /\ lines = << >>
    /\ no_cont_conc = FALSE
    /\ force_string_dates = FALSE
    /\ entry = Unset
    /\ encoded = << >>
    /\ first = << >>
    /\ row = Unset
    /\ gedcom_lines \in SeqsUpTo(FilePool, MaxFileLen) \ {<< >>}
    /\ section \in {"indi", "fam", "sour"}
    /\ scan = [entries |-> Unset, rows |-> Unset]
    /\ loop = NoLoop
    /\ gedcom_out = Unset
    /\ csv = << >>

\* entries = self._get_section_entries(section=section)
GetSectionEntries ==
    /\ pc = "start"
    /\ scan' = [scan EXCEPT !.entries =
                   get_section_entries(gedcom_lines, section, force_string_dates, no_cont_conc)]
    /\ pc' = IF scan'.entries.ok THEN "scanned" ELSE "error"
    /\ UNCHANGED <<text, line, str_out, lines, no_cont_conc, force_string_dates,
                   entry, encoded, first, row, gedcom_lines, section,
                   loop, gedcom_out, csv>>

\* df = self._get_entries_df(entries=entries)
GetEntriesDf ==
    /\ pc = "scanned"
    /\ scan' = [scan EXCEPT !.rows = get_entries_df(scan.entries.val)]
    /\ pc' = IF scan'.rows.ok THEN "done" ELSE "error"
    /\ UNCHANGED <<text, line, str_out, lines, no_cont_conc, force_string_dates,
                   entry, encoded, first, row, gedcom_lines, section,
                   loop, gedcom_out, csv>>

NextScan == GetSectionEntries \/ GetEntriesDf

SpecScan == InitScan /\ [][NextScan]_vars

-----------------------------------------------------------------------------
(* SpecAll: GedcomFile.get_all_records_csv, the three sections one after the other,
   up to the rows of each DataFrame *)

\* a line that fails the line grammar: the tag is in lower case
Line_lower == <<"1", " ", "n", "a", "m", "e", " ", "x">>

AllPool == FilePool \cup {Line_lower}

\* the sections in the order of the dict display (gedcom_file.py 76-80)
Sections == <<"indi", "fam", "sour">>

InitAll ==
    /\ pc = "start"
    /\ text = << >>
    /\ line = Unset
    /\ str_out = << >>
    /\ lines = << >>
    /\ no_cont_conc = FALSE
    /\ force_string_dates = FALSE
    /\ entry = Unset
    /\ encoded = << >>
    /\ first = << >>
    /\ row = Unset
    /\ gedcom_lines \in SeqsUpTo(AllPool, MaxAllLen) \ {<< >>}
    /\ section = Sections[1]
    /\ scan = [entries |-> Unset, rows |-> Unset]
    /\ loop = NoLoop
    /\ gedcom_out = Unset
    /\ csv = << >>

\* a section is converted: its rows are kept and the next section is taken
NextSection ==
    /\ pc = "done"
    /\ Len(csv) < Len(Sections) - 1
    /\ csv' = Append(csv, scan.rows.val)
    /\ section' = Sections[Len(csv) + 2]
    /\ scan' = [entries |-> Unset, rows |-> Unset]
    /\ pc' = "start"
    /\ UNCHANGED <<text, line, str_out, lines, no_cont_conc, force_string_dates,
                   entry, encoded, first, row, gedcom_lines, loop, gedcom_out>>

\* the last section is converted: get_all_records_csv returns the three results
ReturnAll ==
    /\ pc = "done"
    /\ Len(csv) = Len(Sections) - 1
    /\ csv' = Append(csv, scan.rows.val)
    /\ pc' = "returned"
    /\ UNCHANGED <<text, line, str_out, lines, no_cont_conc, force_string_dates,
                   entry, encoded, first, row, gedcom_lines, section, scan, loop,
                   gedcom_out>>

NextAll == GetSectionEntries \/ GetEntriesDf \/ NextSection \/ ReturnAll

SpecAll == InitAll /\ [][NextAll]_vars

-----------------------------------------------------------------------------
(* Line codec: C1 *)

\* the depth digits of a text are the decimal numeral of the depth: no leading zero
CanonicalDepth(s) == Len(s) >= 2 /\ (s[1] = "0" => s[2] = " ")

NoMarker(s) == Find(s, CONT_PLACEHOLDER) = -1

\* C1 as stated: every one-line text that matches the line grammar and holds no
\* continuation marker is returned unchanged by Line.from_str(s).to_str().
C1_RoundTripEveryText ==
    (pc = "done" /\ NoMarker(text) /\ ~HasNewline(text)) => str_out = text

\* C1, amended: every text without a newline that matches the line grammar, holds no
\* continuation marker and writes its depth without a leading zero is returned
\* unchanged by Line.from_str(s).to_str().
C1_RoundTripCanonicalText ==
    (pc = "done" /\ NoMarker(text) /\ CanonicalDepth(text) /\ ~HasNewline(text))
        => str_out = text

\* a canonical text with an empty value payload has been parsed and serialized
C1_Witness ==
    /\ pc = "done"
    /\ CanonicalDepth(text)
    /\ ~HasNewline(text)
    /\ line.val.tag_value = Some(<< >>)
    /\ str_out = text

-----------------------------------------------------------------------------
(* Continuation reconciler: C2, C3, C4, C5, C9 *)

IsContinuation(l) == CONT_RE(l).match \/ CONC_RE(l).match

\* the record handed to Entry is a header, an owner line and a run of one or more
\* continuation lines
OwnerWithRun ==
    /\ Len(lines) >= 3
    /\ ~IsContinuation(lines[2])
    /\ \A i \in 3..Len(lines) : IsContinuation(lines[i])

Cut == GEDCOM_MAX_LINE_LENGTH - Len(MISSING_DATA_PLACEHOLDER)

\* the owner line as the discard policy is specified to store it
DiscardedOwner(owner) ==
    IF Len(owner) > Cut THEN SliceTo(owner, Cut) \o MISSING_DATA_PLACEHOLDER
    ELSE IF LINE_RE(owner).tag_value = None
    THEN owner \o <<" ">> \o MISSING_DATA_PLACEHOLDER
    ELSE owner \o MISSING_DATA_PLACEHOLDER

\* C2: under the discard policy an owner line followed by a run of continuation
\* lines is stored as the owner text with <<MISSING DATA>> appended exactly once.
C2_PlaceholderAppendedOnce ==
    (pc = "built" /\ no_cont_conc /\ OwnerWithRun)
        => /\ Len(entry.val.stored) = 1
           /\ to_str(entry.val.stored[1]) = DiscardedOwner(lines[2])

\* C3: under the preserve policy every stored line that has a value is given back by
\* collapse_cont_conc(add_cont_conc([l])).
C3_EncodeDecodeIsIdentity ==
    (pc = "built" /\ ~no_cont_conc)
        => \A i \in 1..Len(entry.val.stored) :
              LET l == to_str(entry.val.stored[i])
              IN  entry.val.stored[i].tag_value # None
                     => collapse_cont_conc(add_cont_conc(<<l>>)) = Ok(<<l>>)

\* C4: under the preserve policy the record built from a record's header and encoded
\* lines is encoded to the same lines again.
C4_EncodeIsStable ==
    (first # << >> /\ ~no_cont_conc)
        => /\ pc # "error"
           /\ pc = "encoded" => encoded = first[1].encoded

C9_DiscardedOwnerFits ==
    (pc = "built" /\ no_cont_conc /\ OwnerWithRun)
        => LET kept == to_str(entry.val.stored[1])
           IN  /\ Len(kept) <= GEDCOM_MAX_LINE_LENGTH
               /\ Len(lines[2]) > Cut
                     => kept = SliceTo(lines[2], Cut) \o MISSING_DATA_PLACEHOLDER

\* an owner line longer than 80 characters, followed by a run, has been stored
C9_Witness ==
    /\ pc = "built"
    /\ no_cont_conc
    /\ OwnerWithRun
    /\ Len(lines[2]) > GEDCOM_MAX_LINE_LENGTH
    /\ Len(to_str(entry.val.stored[1])) = GEDCOM_MAX_LINE_LENGTH

-----------------------------------------------------------------------------
(* Row flattener: C6, C7, C8 *)

Str_NAME == <<"N", "A", "M", "E">>

Str_GIVN == <<"G", "I", "V", "N">>

Stored == entry.val.stored

\* the item of the row that the i-th body line has put in
RowItem(i) == row.val[i + 2]

\* the body is two sibling NAME lines, each followed by a GIVN child
TwoNamesWithGivn ==
    /\ Len(Stored) = 4
    /\ \A i \in {1, 3} : Stored[i].depth = 1 /\ Stored[i].tag = Str_NAME
    /\ \A i \in {2, 4} : Stored[i].depth = 2 /\ Stored[i].tag = Str_GIVN

\* C6: the two GIVN lines of two sibling NAME blocks get the keys NAME+GIVN and
\* NAME+GIVN_1: the suffix is on the last segment, the ancestor segment is plain.
C6_SuffixOnLastSegment ==
    (pc = "flattened" /\ TwoNamesWithGivn)
        => /\ RowItem(2).key = Str_NAME \o <<"+">> \o Str_GIVN
           /\ RowItem(4).key = Str_NAME \o <<"+">> \o Str_GIVN \o <<"_", "1">>

\* C7: the row has one key per stored body line plus id and tag_type, all keys
\* distinct, and the i-th line's key maps to its value, or to <<NONE>> when the
\* line has no value.
C7_OneKeyPerLine ==
    pc = "flattened"
        => /\ Len(row.val) = Len(Stored) + 2
           /\ row.val[1].key = Key_id
           /\ row.val[2].key = Key_tag_type
           /\ \A i, j \in 1..Len(row.val) : row.val[i].key = row.val[j].key => i = j
           /\ \A i \in 1..Len(Stored) :
                 RowItem(i).value = IF Stored[i].tag_value = None
                                    THEN EMPTY_LINE_PLACEHOLDER
                                    ELSE Stored[i].tag_value[1]

\* a record with a repeated tag path and a line without a value has been flattened
C7_Witness ==
    /\ pc = "flattened"
    /\ \E i \in 1..Len(row.val) : Find(row.val[i].key, SUFFIX_SEPARATOR) # -1
    /\ \E i \in 1..Len(Stored) : Stored[i].tag_value = None

\* every body line is at depth 1 or at most one level below the line before it
WellNested(ls) ==
    /\ ls # << >> => ls[1].depth = 1
    /\ \A i \in 2..Len(ls) : ls[i].depth >= 1 /\ ls[i].depth <= ls[i - 1].depth + 1

\* the tags of the ancestors of the i-th line and of the line itself; the parent of a
\* line is the nearest line before it that is less deep
RECURSIVE TagPath(_, _)
TagPath(ls, i) ==
    LET above == {j \in 1..(i - 1) : ls[j].depth < ls[i].depth}
    IN  IF above = {} THEN << ls[i].tag >>
        ELSE Append(TagPath(ls, CHOOSE j \in above : \A k \in above : k <= j), ls[i].tag)

NoPathTwice(ls) ==
    \A i, j \in 1..Len(ls) : TagPath(ls, i) = TagPath(ls, j) => i = j

-----------------------------------------------------------------------------
(* Section scanner: C10 *)

\* the header lines of a category among the lines of the scanned files
HeaderLines(sec) ==
    CASE sec = "indi" -> {Header_I1}
      [] sec = "fam"  -> {Header_F1}
      [] sec = "sour" -> {}

CategoryAbsent == \A i \in 1..Len(gedcom_lines) : gedcom_lines[i] \notin HeaderLines(section)

\* C10: when no line of the input is a header of the category, neither boundary is
\* found, no error is raised, and the section has zero records and zero rows.
C10_AbsentCategoryIsEmpty ==
    CategoryAbsent
        => /\ get_section_start_index(gedcom_lines, section) = None
           /\ get_section_end_index(gedcom_lines, section) = Ok(None)
           /\ pc # "error"
           /\ pc \in {"scanned", "done"} => scan.entries = Ok(<< >>)
           /\ pc = "done" => scan.rows = Ok(<< >>)

\* a file that holds records of another category has been scanned for an absent one
C10_Witness ==
    /\ pc = "done"
    /\ CategoryAbsent
    /\ section = "fam"
    /\ \E i \in 1..Len(gedcom_lines) : gedcom_lines[i] = Header_I1
    /\ scan.rows = Ok(<< >>)

-----------------------------------------------------------------------------
(* Section scanner: C11, C12 *)

StartIndex == get_section_start_index(gedcom_lines, section)

EndIndex == get_section_end_index(gedcom_lines, section)

\* exactly one of the two boundary scans has returned an index
HalfDefined == EndIndex.ok /\ ((StartIndex = None) # (EndIndex.val = None))

\* C11: when exactly one of the start boundary and the end boundary of the category
\* is found, _get_section_entries raises RuntimeError: no record is returned and no
\* row is built.
C11_HalfDefinedSectionFails ==
    (pc # "start" /\ HalfDefined)
        => /\ pc = "error"
           /\ scan.entries = Raise("RuntimeError")
           /\ scan.rows = Unset

\* a file whose only header of the category is its last line has been scanned: the
\* start boundary is found, the end boundary is not, and the scan has failed
C11_Witness ==
    /\ pc = "error"
    /\ Len(gedcom_lines) >= 2
    /\ StartIndex = Some(Len(gedcom_lines) - 1)
    /\ EndIndex = Ok(None)
    /\ scan.entries = Raise("RuntimeError")

\* both boundary scans have returned an index
BothFound == StartIndex # None /\ EndIndex.ok /\ EndIndex.val # None

\* the lines a record was built from: its header and its body lines
EntryText(e) ==
    << <<"0", " ">> \o e.id \o <<" ">> \o e.type >>
        \o [i \in 1..Len(e.stored) |-> to_str(e.stored[i])]

RECURSIVE ConcatAll(_)
ConcatAll(seqs) ==
    IF seqs = << >> THEN << >> ELSE seqs[1] \o ConcatAll(SubSeq(seqs, 2, Len(seqs)))

\* C12: when both boundaries of the section are found, every returned record starts
\* at a depth-0 line and holds no other depth-0 line, and the records' lines
\* concatenated in order are the input lines from the section start through the
\* section end.
C12_RecordsPartitionSection ==
    (pc \in {"scanned", "done"} /\ BothFound)
        => LET recs == [i \in 1..Len(scan.entries.val) |-> EntryText(scan.entries.val[i])]
           IN  /\ \A i \in 1..Len(recs) :
                     /\ StartsWith(recs[i][1], <<"0">>)
                     /\ \A k \in 2..Len(recs[i]) : ~StartsWith(recs[i][k], <<"0">>)
               /\ ConcatAll(recs)
                     = SubSeq(gedcom_lines, StartIndex[1] + 1, EndIndex.val[1] + 1)

-----------------------------------------------------------------------------
(* Line grammar: C13 *)

\* the text is <digits> <TAG>[ <rest>]: one or more digits, a space, one or more
\* characters of [A-Z0-9_], and then either nothing or a space and any rest
GrammarMatch(s) ==
    \E nd \in 1..Len(s) : \E nt \in 1..Len(s) :
        /\ nd + 1 + nt <= Len(s)
        /\ \A i \in 1..nd : s[i] \in DigitSet
        /\ s[nd + 1] = " "
        /\ \A i \in (nd + 2)..(nd + 1 + nt) : s[i] \in TagCharSet
        /\ (nd + 1 + nt = Len(s) \/ s[nd + nt + 2] = " ")

\* Line.from_str has raised ValueError and has returned no Line
FromStrFailed == pc = "error" /\ ~line.ok /\ line.err = "ValueError" /\ line.val = NoLine

\* C13 as stated: Line.from_str fails for every text that does not match
\* <digits> <TAG>[ <rest>] and for no text that matches it.
C13_FailsIffNoMatchEveryText ==
    pc # "start" => IF GrammarMatch(text) THEN line.ok ELSE FromStrFailed

\* C13, amended: for every text that holds no newline, Line.from_str fails when the
\* text does not match <digits> <TAG>[ <rest>] and does not fail when it matches.
C13_FailsIffNoMatchOneLine ==
    (pc # "start" /\ ~HasNewline(text))
        => IF GrammarMatch(text) THEN line.ok ELSE FromStrFailed

\* a text with digits and a tag but a lower-case tag has been refused
C13_Witness ==
    /\ FromStrFailed
    /\ ~HasNewline(text)
    /\ Len(text) >= 3
    /\ text[1] \in DigitSet
    /\ text[2] = " "
    /\ text[3] = "n"

-----------------------------------------------------------------------------
(* Orphan continuation: C14 *)

\* the first body line of the record handed to Entry has the tag CONT or CONC
FirstBodyLineIsContinuation ==
    /\ Len(lines) >= 2
    /\ LINE_RE(lines[2]).match
    /\ LINE_RE(lines[2]).tag \in {Str_CONT, Str_CONC}

\* C14: under both policies a record whose first body line is a CONT or CONC line
\* is refused with an error when it is built: no Entry is produced.
C14_OrphanContinuationRejected ==
    (pc # "start" /\ FirstBodyLineIsContinuation) => (pc = "error" /\ ~entry.ok)

-----------------------------------------------------------------------------
(* Header grammar inside a section: C15 *)

\* a line of depth 0
IsDepth0(l) == from_str(l).ok /\ from_str(l).val.depth = 0

\* a depth-0 line between the section start and the section end is no record header
BadHeaderInSection ==
    /\ BothFound
    /\ \E i \in (StartIndex[1] + 1)..(EndIndex.val[1] + 1) :
          IsDepth0(gedcom_lines[i]) /\ ~FIRST_LINE_RE(gedcom_lines[i]).match

\* C15: when a depth-0 line between the start and the end of the section does not
\* match the header grammar, building the section's records fails with an error:
\* the line is neither skipped nor made a record.
C15_BadHeaderFails ==
    (pc # "start" /\ BadHeaderInSection) => (pc = "error" /\ ~scan.entries.ok)

-----------------------------------------------------------------------------
(* Date coercion: C16 *)

\* the value force_string_dates is specified to give a line: a DATE value gets one
\* leading quote unless it has one, any other value is left as it is
CoercedValue(l) ==
    IF l.tag = DATE_TAG /\ ~StartsWith(l.tag_value[1], <<"'">>)
    THEN <<"'">> \o l.tag_value[1]
    ELSE l.tag_value[1]

\* C16: with force_string_dates set, flattening a record returns a row in which the
\* value of every DATE line that has a value is that value with exactly one leading
\* quote, and the value of every other line that has a value is not prefixed.
C16_DateValuesQuotedOnce ==
    (pc \in {"flattened", "error"} /\ entry.ok /\ force_string_dates)
        => /\ row.ok
           /\ \A i \in 1..Len(Stored) :
                 Stored[i].tag_value # None => RowItem(i).value = CoercedValue(Stored[i])

-----------------------------------------------------------------------------
(* Encode loop: C17 *)

\* what is left to encode: nothing (None), or a value of some length
Remaining(v) == IF v = None THEN 0 ELSE Len(v[1]) + 1

-----------------------------------------------------------------------------
(* Reverse direction: C19 *)

\* key.split("+")
RECURSIVE SplitPath(_)
SplitPath(key) ==
    LET n == Find(key, ACTIVE_TAG_SEPARATOR)
    IN  IF n = -1 THEN << key >>
        ELSE << SliceTo(key, n) >> \o SplitPath(SliceFrom(key, n + 1))

\* no key of the row carries a disambiguation suffix
NoSuffixedKey == \A i \in 1..Len(row.val) : Find(row.val[i].key, SUFFIX_SEPARATOR) = -1

\* C19: for a record with body lines whose row has no disambiguated key, the reverse
\* direction emits one line per key other than id and tag_type, in key order, at the depth
\* given by the length of the key's path and with the last path segment as tag, and
\* these lines are the record's body lines.
C19_UnflattenInvertsFlatten ==
    (pc = "unflattened" /\ NoSuffixedKey /\ Stored # << >>)
        => /\ gedcom_out.ok
           /\ gedcom_out.val # None
           /\ LET out == gedcom_out.val[1]
              IN  /\ Len(out) = Len(row.val) - 2
                  /\ \A i \in 1..Len(out) :
                        LET path == SplitPath(row.val[i + 2].key)
                            l    == from_str(out[i])
                        IN  /\ l.ok
                            /\ l.val.depth = Len(path)
                            /\ l.val.tag = path[Len(path)]
                  /\ out = [i \in 1..Len(Stored) |-> to_str(Stored[i])]

-----------------------------------------------------------------------------
(* Fail closed: C20 *)

\* some line of the input that is no record header fails the line grammar (a
\* header such as '0 @I1@ INDI' is read by _FIRST_LINE_RE, never by _LINE_RE)
SomeLineMalformed ==
    \E i \in 1..Len(gedcom_lines) :
        /\ ~FIRST_LINE_RE(gedcom_lines[i]).match
        /\ ~from_str(gedcom_lines[i]).ok

\* rows have been returned for some category
RowsReturned == pc = "returned" /\ \E k \in 1..Len(csv) : csv[k] # << >>

\* C20: when any line of the input fails the depth/tag line grammar, the whole
\* conversion ends with an error and get_all_records_csv returns no rows for any
\* category; stated here by its second half: no row is ever returned for such an
\* input.
C20_FailsClosed == SomeLineMalformed => ~RowsReturned

-----------------------------------------------------------------------------
(* Stored lines carry no continuation tag: C21 *)

\* C21: after a record is built under either policy, no stored line has the tag
\* CONT or CONC: every continuation line of the input, one without a value
\* included, is folded into its owner line or dropped.
C21_NoStoredContinuation ==
    pc = "built"
        => \A i \in 1..Len(entry.val.stored) :
              entry.val.stored[i].tag \notin {Str_CONT, Str_CONC}

-----------------------------------------------------------------------------
(* Space before the marker: C22 *)

\* the record is a header, an owner line <depth> <tag> without a value, and a run of
\* continuation lines that starts with a CONT line
EmptyOwnerWithRun ==
    /\ OwnerWithRun
    /\ LINE_RE(lines[2]).match
    /\ LINE_RE(lines[2]).tag_value = None
    /\ CONT_RE(lines[3]).match

\* C22: when an owner line without a value is followed by a continuation line, the
\* record is built and the owner is stored with its depth and its tag and with a
\* value that starts with the break marker (preserve) or the placeholder (discard):
\* one space separates the tag from what is appended, whatever the tag.
C22_SpaceBeforeMarker ==
    (pc # "start" /\ first = << >> /\ EmptyOwnerWithRun)
        => /\ pc # "error"
           /\ LET l == entry.val.stored[1]
                   m == LINE_RE(lines[2])
               IN  /\ l.depth = ParseInt(m.depth)
                   /\ l.tag = m.tag
                   /\ l.tag_value # None
                   /\ StartsWith(l.tag_value[1],
                                 IF no_cont_conc THEN MISSING_DATA_PLACEHOLDER
                                 ELSE CONT_PLACEHOLDER)

-----------------------------------------------------------------------------
(* Encoding a line without a value: C23 *)

\* C23: a record whose only stored line has no value is encoded as exactly one
\* line, the text <depth> <tag>, with no value part and no continuation line.
C23_ValuelessLineEncodedBare ==
    (pc = "encoded" /\ Len(entry.val.stored) = 1 /\ entry.val.stored[1].tag_value = None)
        => encoded = << IntStr(entry.val.stored[1].depth) \o <<" ">>
                            \o entry.val.stored[1].tag >>

-----------------------------------------------------------------------------
(* Split point: C24 *)

\* the value an encode step is about to cut, with the depth and the tag of the line
\* it belongs on: a stored line in the for loop, the remainder in the while loop
StepValue ==
    IF pc = "for" THEN entry.val.stored[loop.i + 1].tag_value ELSE loop.next_tag_value

StepDepth == IF pc = "for" THEN entry.val.stored[loop.i + 1].depth ELSE CurrentDepth + 1

StepTag == IF pc = "for" THEN entry.val.stored[loop.i + 1].tag ELSE loop.new_tag

\* the characters of a line that are not its value: depth, tag and two spaces
Overhead == Len(IntStr(StepDepth)) + Len(StepTag) + 2

\* what the stated rule leaves of a value v after the split
RemainderByRule(v) ==
    LET k == Find(v, CONT_PLACEHOLDER)
    IN  IF k # -1 /\ k + Overhead <= GEDCOM_MAX_LINE_LENGTH
        THEN SliceFrom(v, k + Len(CONT_PLACEHOLDER))
        ELSE SliceFrom(v, GEDCOM_MAX_LINE_LENGTH - Overhead)

\* C24: every encode step that splits a value splits it by the stated rule: at the
\* first break marker when the text before it plus the overhead is at most 80
\* characters, and otherwise at offset 80 minus the overhead.
C24_SplitPointByRule ==
    [][(pc \in {"for", "while"} /\ pc' = "while" /\ loop'.need_split)
            => loop'.next_tag_value = Some(RemainderByRule(StepValue[1]))]_vars

-----------------------------------------------------------------------------
(* Minimal length split: C25 *)

\* the record has one stored line, its value holds no break marker and its text has
\* more than 80 characters
OneLongLineNoMarker ==
    /\ Len(entry.val.stored) = 1
    /\ entry.val.stored[1].tag_value # None
    /\ NoMarker(entry.val.stored[1].tag_value[1])
    /\ Len(to_str(entry.val.stored[1])) > GEDCOM_MAX_LINE_LENGTH

\* the text "<depth> CONC " that starts a continuation line one level below depth d
ConcHead(d) == IntStr(d + 1) \o <<" ">> \o Str_CONC \o <<" ">>

-----------------------------------------------------------------------------
(* No marker in the output: C26 *)

\* s.endswith(p)
EndsWith(s, p) == Len(s) >= Len(p) /\ SubSeq(s, Len(s) - Len(p) + 1, Len(s)) = p

\* the value part of an emitted line, empty when the line has none
ValuePart(l) ==
    LET m == LINE_RE(l) IN IF m.match /\ m.tag_value # None THEN m.tag_value[1] ELSE << >>

\* v with every break marker taken out
RECURSIVE StripMarkers(_)
StripMarkers(v) ==
    LET k == Find(v, CONT_PLACEHOLDER)
    IN  IF k = -1 THEN v
        ELSE SliceTo(v, k) \o StripMarkers(SliceFrom(v, k + Len(CONT_PLACEHOLDER)))

\* the number of break markers in v
RECURSIVE CountMarkers(_)
CountMarkers(v) ==
    LET k == Find(v, CONT_PLACEHOLDER)
    IN  IF k = -1 THEN 0 ELSE 1 + CountMarkers(SliceFrom(v, k + Len(CONT_PLACEHOLDER)))

\* the marker is cut in two between the emitted lines a and b
CutInTwo(a, b) ==
    \E k \in 1..(Len(CONT_PLACEHOLDER) - 1) :
        /\ EndsWith(a, SubSeq(CONT_PLACEHOLDER, 1, k))
        /\ StartsWith(ValuePart(b), SubSeq(CONT_PLACEHOLDER, k + 1, Len(CONT_PLACEHOLDER)))

-----------------------------------------------------------------------------
(* Stack length: C27 *)

\* C27: when a record is flattened, the tag-path stack after each body line has as
\* many entries as the line's depth, whatever the sequence of depths: the key of
\* every body line, which is the stack joined by "+", has as many segments as the
\* line's depth.
C27_StackLengthIsDepth ==
    pc = "flattened"
        => \A i \in 1..Len(Stored) : Len(SplitPath(RowItem(i).key)) = Stored[i].depth

-----------------------------------------------------------------------------
(* No empty value: C28 *)

\* C28: a Line built by Line.from_str never has the empty string as its value: a
\* text without a value payload, also one whose tag is followed by a single
\* trailing space, gives the value None.
C28_ValueNeverEmpty ==
    pc \in {"parsed", "done"} => line.val.tag_value # Some(<< >>)

-----------------------------------------------------------------------------
(* Complete scan: C29 *)

\* the number of elements of a sequence that satisfy a test given as a set
Count(seq, S) == Cardinality({i \in 1..Len(seq) : seq[i] \in S})

\* the input has a header of the category and its last line is a depth-0 line that
\* is no header
HeadersAndTerminator ==
    /\ ~CategoryAbsent
    /\ IsDepth0(gedcom_lines[Len(gedcom_lines)])

\* C29: for an input that ends with a depth-0 line, the scan of a category does not
\* fail, and its result holds exactly one record for every line that matches the
\* header pattern of the category, so it is not empty; also when the first header is
\* the first line of the input and when the last record has no body lines.
C29_ScanIsComplete ==
    (pc # "start" /\ HeadersAndTerminator)
        => /\ pc # "error"
           /\ scan.entries.ok
           /\ scan.entries.val # << >>
           /\ Count([i \in 1..Len(scan.entries.val) |-> EntryText(scan.entries.val[i])[1]],
                    HeaderLines(section))
                 = Count(gedcom_lines, HeaderLines(section))

-----------------------------------------------------------------------------
(* Record type: C30 *)

\* the record type of a category
SectionType(sec) ==
    CASE sec = "indi" -> Type_INDI
      [] sec = "fam"  -> Type_FAM
      [] sec = "sour" -> Type_SOUR

\* C30: every record returned for a category has the category's type, and every row
\* built from the records has it as its tag_type, also when records of another
\* category lie between the first and the last record of the category.
C30_RecordsHaveCategoryType ==
    /\ pc \in {"scanned", "done"}
          => \A i \in 1..Len(scan.entries.val) :
                scan.entries.val[i].type = SectionType(section)
    /\ pc = "done"
          => \A i \in 1..Len(scan.rows.val) :
                scan.rows.val[i][2] = [key |-> Key_tag_type, value |-> SectionType(section)]

=============================================================================
